---- MODULE Spec2Model ----
(***************************************************************************)
(* Model of mtools.util.logfile.LogFile: lazy metadata (boundary scan and  *)
(* full scan) and the time-based fast_forward over a line-delimited log     *)
(* stream.  A log file is a sequence of lines; each line has a byte length  *)
(* (its line-break included), an optional timestamp and the sub-strings     *)
(* that the full scan looks for.  Stream positions are byte offsets.        *)
(***************************************************************************)
EXTENDS Integers, Sequences, FiniteSets, TLC

VARIABLES
    file,        \* the log text: a sequence of line records (never changes)
    from_stdin,  \* TRUE for the forward-only stream
    pos,         \* position of the file handle (byte offset)
    ahead,       \* bytes before pos held in the handle's read-ahead buffer
    _start, _end, _filesize, _num_lines, _restarts, _binary,
    raised,      \* exception the last operation ended with ("none" if it returned)
    lastOp,      \* name of the last operation
    arg,         \* start_dt of the last fast_forward, or the number of
                 \* records asked of the last iteration
    prePos,      \* position of the file handle before the last operation
    preAhead,    \* bytes in the read-ahead buffer before the last operation
    ret,         \* value the last operation returned
    scanned,     \* scan the last operation ran: "none", "bounds" or "full"
    again,       \* TRUE when the last operation read a property read before
    first,       \* per property: the value its first access returned
    nBounds,     \* number of boundary scans run so far
    nFull,       \* number of full scans run so far
    nops         \* number of operations performed so far

vars == <<file, from_stdin, pos, ahead, _start, _end, _filesize, _num_lines, _restarts,
          _binary, raised, lastOp, arg, prePos, preAhead, ret, scanned, again, first,
          nBounds, nFull, nops>>

(***************************************************************************)
(* Bounds of the model.                                                    *)
(***************************************************************************)
MaxLines == 3
MaxTs == 3
MaxVer == 2
MaxOps == 2

(***************************************************************************)
(* Program constants.                                                      *)
(***************************************************************************)
Window == 15000
ReadAhead == 8192
Threshold == 100
BackStep == 2
YearLen == 1

None == -1

Min(a, b) == IF a < b THEN a ELSE b
Max(a, b) == IF a > b THEN a ELSE b
Abs(a) == IF a < 0 THEN -a ELSE a
SetMax(S) == CHOOSE x \in S : \A y \in S : y <= x
SetMin(S) == CHOOSE x \in S : \A y \in S : x <= y

\* Python truthiness of an int-or-None value (a datetime is always true)
Falsy(x) == x = None \/ x = 0

(***************************************************************************)
(* The files.  Timestamps are integers; one year is YearLen units.          *)
(***************************************************************************)
Times == {YearLen + k : k \in 1..MaxTs}
LineLens == {60, 16000}
ShortLen == 30

\* lines of ordinary log text, with or without a timestamp
TimedLines ==
    [len : LineLens, ts : {None} \cup Times, nl : {TRUE},
     kw : {FALSE}, ms : {FALSE}, dbv : {FALSE}, ver : {0}]

\* lines the full scan classifies: kw is "version" in line, ms is "mongos" or
\* "MongoS" in line, dbv is "db version v" in line (which contains "version"),
\* ver is the token matched by \d\.\d\.\d+ (0 when the regex does not match)
Text(t, k, m, d, v) ==
    [len |-> ShortLen, ts |-> t, nl |-> TRUE, kw |-> k, ms |-> m, dbv |-> d,
     ver |-> v]

Plain == Text(None, FALSE, FALSE, FALSE, 0)
Mongod(v) == Text(YearLen + 1, TRUE, FALSE, TRUE, v)
Mongos(v) == Text(YearLen + 1, TRUE, TRUE, FALSE, v)
\* "version 4.2.1 mongod": the keyword and a token, neither marker
Unmarked(v) == Text(YearLen + 1, TRUE, FALSE, FALSE, v)
\* a later message
Late == Text(YearLen + 2, FALSE, FALSE, FALSE, 0)

BannerLines ==
    {Plain, Unmarked(1), Mongos(1), Mongod(0)}
        \cup {Mongod(v) : v \in 1..MaxVer}

SeqsUpTo(S, n) == UNION {[1..k -> S] : k \in 0..n}

\* the last line of a file may lack its line-break
DropLastBreak(f) ==
    IF f = <<>> THEN f
    ELSE [f EXCEPT ![Len(f)] = [@ EXCEPT !.nl = FALSE]]

(***************************************************************************)
(* Byte layout of the file.                                                *)
(***************************************************************************)
RECURSIVE EndOf(_)
EndOf(i) == IF i = 0 THEN 0 ELSE EndOf(i - 1) + file[i].len

Size == EndOf(Len(file))

\* index of the line that holds byte p (0 <= p < Size)
LineAt(p) == CHOOSE i \in 1..Len(file) : EndOf(i - 1) <= p /\ p < EndOf(i)

NoLine == [n |-> 0, dt |-> None, idx |-> 0, whole |-> FALSE]

\* LogLine(line).datetime: the timestamp stands at the head of a line, so the
\* tail of a line read from a position inside it (the bare line-break
\* included) carries none
datetime(i, whole) == IF whole THEN file[i].ts ELSE None

\* filehandle.readline() at position p: the bytes up to and including the
\* next line-break (or to the end of the file); n = 0 is the empty string
readline(p) ==
    IF p >= Size THEN NoLine
    ELSE LET i == LineAt(p)
             w == (p = EndOf(i - 1))
         IN  [n |-> EndOf(i) - p, dt |-> datetime(i, w), idx |-> i, whole |-> w]

\* positions of the line-break bytes
Breaks == {EndOf(i) - 1 : i \in {j \in 1..Len(file) : file[j].nl}}

\* buff.find('\n'): the first line-break of the bytes [a, b), not the last
find(a, b) ==
    LET inside == {q \in Breaks : a <= q /\ q < b}
    IN  IF inside = {} THEN -1 ELSE SetMin(inside) - a

\* buff.rfind('\n') for buff = the bytes [a, b) of the file: index in buff
rfind(a, b) ==
    LET inside == {q \in Breaks : a <= q /\ q < b}
    IN  IF inside = {} THEN -1 ELSE SetMax(inside) - a

(***************************************************************************)
(* _find_curr_line.                                                        *)
(***************************************************************************)
\* the loop of _find_curr_line from position q; ll is the record returned
\* (NoLine for None) and pos the position the file handle is left at
RECURSIVE roll_forward(_, _)
roll_forward(q, prev) ==
    LET r == readline(q)
    IN  IF r.dt # None THEN [ll |-> r, pos |-> q + r.n]
        ELSE IF prev THEN [ll |-> NoLine, pos |-> q + r.n]
        ELSE IF r.n = 0 THEN [ll |-> NoLine, pos |-> q]
        ELSE roll_forward(q + r.n, prev)

\* seek(newline_pos - jump_back, 1) from curr_pos: the position moved to
seek_newline(curr_pos, jump_back, newline_pos) ==
    curr_pos + (newline_pos - jump_back)

_find_curr_line(curr_pos, prev) ==
    LET jump_back == Min(curr_pos, Window)
        a == curr_pos - jump_back
        \* read(jump_back) returns fewer bytes when it runs into the end
        bufflen == Max(0, Min(curr_pos, Size) - a)
        last == rfind(a, a + bufflen)
        \* buff[:newline_pos], a negative index counting from the end
        cut == IF last >= 0 THEN last ELSE Max(0, bufflen + last)
        newline_pos == IF prev THEN rfind(a, a + cut) ELSE last
    IN  IF newline_pos = -1 THEN [ll |-> NoLine, pos |-> curr_pos]
        ELSE roll_forward(seek_newline(curr_pos, jump_back, newline_pos), prev)

(***************************************************************************)
(* fast_forward.                                                           *)
(***************************************************************************)
\* an odd step made even and not halved
ceil_half_stalls(step) ==
    IF step % 2 = 1 THEN step + 1
    ELSE IF step >= 0 THEN step \div 2 ELSE -((-step) \div 2)

\* ceil(step_size / 2.)
ceil_half(step) == IF step >= 0 THEN (step + 1) \div 2 ELSE -((-step) \div 2)

\* the line at or after start_dt found but left unread
RECURSIVE skip_lines_unread(_, _)
skip_lines_unread(p, start_dt) ==
    LET r == readline(p)
    IN  IF r.n = 0 THEN [pos |-> p, err |-> "StopIteration"]
        ELSE IF r.dt # None /\ r.dt >= start_dt
             THEN [pos |-> p, err |-> "none"]
        ELSE skip_lines_unread(p + r.n, start_dt)

\* the forward-only branch: next() until a line at or after start_dt
RECURSIVE skip_lines(_, _)
skip_lines(p, start_dt) ==
    LET r == readline(p)
    IN  IF r.n = 0 THEN [pos |-> p, err |-> "StopIteration"]
        ELSE IF r.dt # None /\ r.dt >= start_dt
             THEN [pos |-> p + r.n, err |-> "none"]
        ELSE skip_lines(p + r.n, start_dt)

\* one round of a loop of fast_forward: the step_size it began with (the
\* position, in the backward loop), the step it took, the position it sought
\* to and the record and position f that _find_curr_line gave there
round(was, step, to, f) ==
    <<[was |-> was, step |-> step, to |-> to, ll |-> f.ll, pos |-> f.pos]>>

\* the rounds rd followed by those of the rest of the loop, whose outcome
\* is b
after_round(rd, b) == [b EXCEPT !.rounds = rd \o @]

\* "search for lower bound": the bisection loop.  rounds lists the rounds
\* it ran.
RECURSIVE bisect(_, _, _, _)

\* the rest of a round of the bisection, f being what _find_curr_line gave
\* at the position to
located(f, was, step, to, start_dt) ==
    IF f.ll = NoLine
    THEN [pos |-> f.pos, ll |-> NoLine, err |-> "none",
          rounds |-> round(was, step, to, f)]
    ELSE after_round(round(was, step, to, f),
                     bisect(f.pos,
                            IF f.ll.dt >= start_dt THEN -Abs(step)
                            ELSE Abs(step),
                            f.ll, start_dt))

\* a round of the bisection from position p with the halved step
seek_step(p, ll, was, step, start_dt) ==
    IF p + step < 0
    THEN [pos |-> p, ll |-> ll, err |-> "IOError",
          rounds |-> round(was, step, p + step, [ll |-> NoLine, pos |-> p])]
    ELSE located(_find_curr_line(p + step, FALSE), was, step, p + step,
                 start_dt)

bisect(p, step_size, ll, start_dt) ==
    IF Abs(step_size) <= Threshold
    THEN [pos |-> p, ll |-> ll, err |-> "none", rounds |-> <<>>]
    ELSE seek_step(p, ll, step_size, ceil_half(step_size), start_dt)

\* "now walk backwards until we found a truely smaller line".  rounds lists
\* the rounds it ran.
RECURSIVE walk_back(_, _, _)

\* the rest of a round of the backward loop begun at p, f being what
\* _find_curr_line(prev=True) gave
stepped_back(p, f, start_dt) ==
    after_round(round(p, -BackStep, p - BackStep, f),
                walk_back(f.pos, f.ll, start_dt))

walk_back(p, ll, start_dt) ==
    IF ll # NoLine /\ p >= BackStep /\ ll.dt >= start_dt
    THEN stepped_back(p, _find_curr_line(p - BackStep, TRUE), start_dt)
    ELSE [pos |-> p, rounds |-> <<>>]

\* the outcome of fast_forward from those of its two loops
both_loops(b, w) ==
    [pos |-> w.pos, err |-> "none", rounds |-> b.rounds, back |-> w.rounds]

\* "if the for loop didn't find a line, return", else the backward loop
after_bisect(b, start_dt) ==
    IF b.err # "none" \/ b.ll = NoLine
    THEN [pos |-> b.pos, err |-> b.err, rounds |-> b.rounds, back |-> <<>>]
    ELSE both_loops(b, walk_back(b.pos, b.ll, start_dt))

\* the seekable branch, entered at position p with max_mark = self.filesize
bisection_path(p, max_mark, start_dt) ==
    after_bisect(bisect(p, max_mark, NoLine, start_dt), start_dt)

(***************************************************************************)
(* _calculate_bounds.                                                      *)
(***************************************************************************)
\* "get start datetime": the first timestamp met reading lines from p
RECURSIVE first_date(_)
first_date(p) ==
    LET r == readline(p)
    IN  IF r.n = 0 THEN None
        ELSE IF r.dt # None THEN r.dt
        ELSE first_date(p + r.n)

\* filehandle.readlines() from position p (also: the lines a for-loop over
\* the file handle yields from p)
RECURSIVE readlines(_)
readlines(p) ==
    LET r == readline(p)
    IN  IF r.n = 0 THEN <<>> ELSE <<r>> \o readlines(p + r.n)

\* "get end datetime": the first timestamp met in reversed(lines)
RECURSIVE last_date(_)
last_date(lines) ==
    IF lines = <<>> THEN None
    ELSE IF lines[Len(lines)].dt # None THEN lines[Len(lines)].dt
    ELSE last_date(SubSeq(lines, 1, Len(lines) - 1))

\* self._end < self._start: the roll-over test; comparing a datetime with
\* None raises TypeError, None < None is False
rollover(e, s) == e # None /\ s # None /\ e < s
cmp_raises(e, s) == (e = None) # (s = None)

\* self._start.replace(year=self._start.year-1)
year_before(s) == s - YearLen

\* the reset left out
reset_skipped(p) == p

\* "reset logfile": filehandle.seek(0) at the end of a scan; p is the
\* position the scan left the handle at
reset_logfile(p) == 0

\* _calculate_bounds entered with the handle at p: the three cached fields,
\* the position left and the exception raised
_calculate_bounds(p) ==
    LET s1 == first_date(p)
        s == IF s1 # None THEN s1 ELSE _start
        size == Size
        tail == size - Min(size, Window)
        e1 == last_date(readlines(tail))
        e == IF e1 # None THEN e1 ELSE _end
    IN  IF cmp_raises(e, s)
        THEN [start |-> s, end |-> e, filesize |-> size, pos |-> size,
              err |-> "TypeError"]
        ELSE [start |-> IF rollover(e, s) THEN year_before(s) ELSE s,
              end |-> e, filesize |-> size, pos |-> reset_logfile(size),
              err |-> "none"]

(***************************************************************************)
(* _iterate_lines and versions.                                            *)
(***************************************************************************)
NoRestarts == <<[v |-> None, line |-> None]>>     \* self._restarts = None

\* every line with the keyword taken for a banner, the kind markers not
\* asked for
classify_keyword(r, acc) ==
    LET l == file[r.idx]
    IN  IF ~(r.whole /\ l.kw) THEN acc
        ELSE [restarts |-> IF l.ver # 0
                          THEN Append(acc.restarts,
                                      [v |-> l.ver, line |-> r.idx])
                          ELSE acc.restarts,
              binary |-> IF l.ms THEN "mongos" ELSE "mongod"]

\* one round of the loop body on the line read as r: acc holds _restarts
\* and _binary.  The sub-strings stand in the text of a line read whole.
classify(r, acc) ==
    LET l == file[r.idx]
    IN  IF ~(r.whole /\ l.kw) THEN acc
        ELSE IF ~l.ms /\ ~l.dbv THEN acc                      \* continue
        ELSE LET b == IF l.ms THEN "mongos" ELSE "mongod"
             IN  [restarts |-> IF l.ver # 0
                               THEN Append(acc.restarts,
                                           [v |-> l.ver, line |-> r.idx])
                               ELSE acc.restarts,
                  binary |-> b]

RECURSIVE scan_lines(_, _)
scan_lines(lines, acc) ==
    IF lines = <<>> THEN acc
    ELSE scan_lines(Tail(lines), classify(Head(lines), acc))

\* self._num_lines = l+1, l the index enumerate gave the last line (0 when
\* the loop body never ran)
count_lines(lines) == (IF lines = <<>> THEN 0 ELSE Len(lines) - 1) + 1

\* filehandle.seek(0) on the forward-only stream is an illegal seek
seek_error == IF from_stdin THEN "IOError" ELSE "none"

_iterate_lines(p) ==
    LET lines == readlines(p)
        acc == scan_lines(lines, [restarts |-> <<>>, binary |-> _binary])
    IN  [num_lines |-> count_lines(lines), restarts |-> acc.restarts,
         binary |-> acc.binary,
         pos |-> IF from_stdin THEN Size ELSE reset_logfile(Size),
         err |-> seek_error]

RECURSIVE collapse(_, _)
collapse(rs, acc) ==
    IF rs = <<>> THEN acc
    ELSE collapse(Tail(rs),
                  IF Len(acc) = 0 \/ Head(rs).v # acc[Len(acc)]
                  THEN Append(acc, Head(rs).v) ELSE acc)

\* every duplicate dropped, not only the consecutive ones
RECURSIVE unique(_, _)
unique(rs, acc) ==
    IF rs = <<>> THEN acc
    ELSE unique(Tail(rs),
                IF \E i \in 1..Len(acc) : acc[i] = Head(rs).v
                THEN acc ELSE Append(acc, Head(rs).v))

versions_unique(rs) == unique(rs, <<>>)

versions_of(rs) == collapse(rs, <<>>)

(***************************************************************************)
(* __iter__: the lines of the file handle, read through its read-ahead      *)
(* buffer.                                                                  *)
(***************************************************************************)
\* position of the handle once the bytes up to e are buffered: a line that
\* runs past the buffer is read on in chunks that grow by a quarter
RECURSIVE fill(_, _, _)
fill(p, e, bufsize) ==
    IF e <= p \/ p >= Size THEN p
    ELSE fill(Min(Size, p + bufsize), e, bufsize + (bufsize \div 4))

\* one round of "for line in self.filehandle" with the handle at p and a
\* bytes buffered: the line, the position and the bytes left in the buffer
file_next(p, a) ==
    LET r == readline(p - a)
        e == (p - a) + r.n
        p1 == IF a = 0 THEN Min(Max(Size, p), p + ReadAhead) ELSE p
        p2 == fill(p1, e, ReadAhead + (ReadAhead \div 4))
    IN  [r |-> r, pos |-> p2, ahead |-> p2 - e]

\* k records taken from the generator: out is the sequence yielded so far
RECURSIVE take(_, _, _, _)
take(k, p, a, out) ==
    IF k = 0 THEN [pos |-> p, ahead |-> a, out |-> out]
    ELSE LET n == file_next(p, a)
         IN  IF n.r.n = 0 THEN [pos |-> n.pos, ahead |-> n.ahead, out |-> out]
             ELSE take(k - 1, n.pos, n.ahead, Append(out, n.r))

(***************************************************************************)
(* The state machine: one LogFile and the operations called on it.          *)
(***************************************************************************)
Props == {"start", "end", "filesize", "num_lines", "restarts", "binary",
          "versions"}

NoRet == [v |-> None, rs |-> <<>>, vs |-> <<>>, b |-> "None", it |-> <<>>]
RetV(x) == [NoRet EXCEPT !.v = x]
RetRs(x) == [NoRet EXCEPT !.rs = x]
RetVs(x) == [NoRet EXCEPT !.vs = x]
RetB(x) == [NoRet EXCEPT !.b = x]
RetIt(x) == [NoRet EXCEPT !.it = x]

\* the inputs: a file and the kind of stream it is read from
Input(F, Stdin, Brk) ==
    {[f |-> IF b THEN f ELSE DropLastBreak(f), stdin |-> s] :
        f \in F, s \in Stdin, b \in Brk}

\* __init__
Constructed(in) ==
    /\ file = in.f
    /\ from_stdin = in.stdin
    /\ pos = 0 /\ ahead = 0
    /\ _start = None /\ _end = None /\ _filesize = None
    /\ _num_lines = None /\ _restarts = NoRestarts /\ _binary = "None"
    /\ raised = "none" /\ lastOp = "none" /\ arg = None /\ prePos = 0 /\ preAhead = 0
    /\ ret = NoRet /\ scanned = "none" /\ again = FALSE
    /\ first = [p \in Props |-> [set |-> FALSE, r |-> NoRet]]
    /\ nBounds = 0 /\ nFull = 0 /\ nops = 0

\* ordinary log text read from a file (whose last line may lack its
\* line-break) or from the forward-only stream, and files of banners
Init ==
    \E in \in Input(SeqsUpTo(TimedLines, MaxLines), {FALSE}, BOOLEAN)
                \cup Input(SeqsUpTo(TimedLines, MaxLines), {TRUE}, {TRUE})
                \cup Input(SeqsUpTo(BannerLines, MaxLines), BOOLEAN, {TRUE}) :
        Constructed(in)

\* the number of operations called on one object is bounded
CanCall == nops < MaxOps

\* the bookkeeping of one operation: what it was, what it returned or
\* raised and which scan it ran
Record(op, r, sc, err, a) ==
    /\ nops' = nops + 1
    /\ lastOp' = op /\ arg' = a /\ prePos' = pos /\ preAhead' = ahead
    /\ ret' = IF err = "none" THEN r ELSE NoRet
    /\ raised' = err /\ scanned' = sc
    /\ again' = (op \in Props /\ first[op].set)
    /\ first' = IF op \in Props /\ err = "none" /\ ~first[op].set
                THEN [first EXCEPT ![op] = [set |-> TRUE, r |-> r]]
                ELSE first
    /\ nBounds' = nBounds + (IF sc = "bounds" THEN 1 ELSE 0)
    /\ nFull' = nFull + (IF sc = "full" THEN 1 ELSE 0)
    /\ UNCHANGED <<file, from_stdin>>

\* the properties start, end and filesize: op names the property and the
\* cached field, cached is the field's value.  The loops over the file
\* handle read on from the buffered bytes, at pos - ahead; every seek drops
\* the buffer.
BoundsProperty(op, cached) ==
    IF from_stdin
    THEN /\ Record(op, RetV(None), "none", "none", None)
         /\ UNCHANGED <<pos, ahead, _start, _end, _filesize, _num_lines,
                        _restarts, _binary>>
    ELSE IF Falsy(cached)
    THEN LET cb == _calculate_bounds(pos - ahead)
         IN  /\ _start' = cb.start /\ _end' = cb.end
             /\ _filesize' = cb.filesize /\ pos' = cb.pos /\ ahead' = 0
             /\ Record(op, RetV(cb[op]), "bounds", cb.err, None)
             /\ UNCHANGED <<_num_lines, _restarts, _binary>>
    ELSE /\ Record(op, RetV(cached), "none", "none", None)
         /\ UNCHANGED <<pos, ahead, _start, _end, _filesize, _num_lines,
                        _restarts, _binary>>

start == CanCall /\ BoundsProperty("start", _start)
end == CanCall /\ BoundsProperty("end", _end)
filesize == CanCall /\ BoundsProperty("filesize", _filesize)

\* what the property op returns from the three fields of the full scan
scan_value(op, nl, rs, b) ==
    CASE op = "num_lines" -> RetV(nl)
      [] op = "restarts" -> RetRs(rs)
      [] op = "binary" -> RetB(b)
      [] op = "versions" -> RetVs(versions_of(rs))

\* the properties num_lines, restarts, binary and versions (which reads
\* restarts); only num_lines tests from_stdin
ScanProperty(op, stdin_none) ==
    IF stdin_none /\ from_stdin
    THEN /\ Record(op, RetV(None), "none", "none", None)
         /\ UNCHANGED <<pos, ahead, _start, _end, _filesize, _num_lines,
                        _restarts, _binary>>
    ELSE IF Falsy(_num_lines)
    THEN LET it == _iterate_lines(pos - ahead)
         IN  /\ _num_lines' = it.num_lines /\ _restarts' = it.restarts
             /\ _binary' = it.binary /\ pos' = it.pos /\ ahead' = 0
             /\ Record(op, scan_value(op, it.num_lines, it.restarts, it.binary),
                       "full", it.err, None)
             /\ UNCHANGED <<_start, _end, _filesize>>
    ELSE /\ Record(op, scan_value(op, _num_lines, _restarts, _binary), "none",
                   "none", None)
         /\ UNCHANGED <<pos, ahead, _start, _end, _filesize, _num_lines,
                        _restarts, _binary>>

num_lines == CanCall /\ ScanProperty("num_lines", TRUE)
restarts == CanCall /\ ScanProperty("restarts", FALSE)
binary == CanCall /\ ScanProperty("binary", FALSE)
versions == CanCall /\ ScanProperty("versions", FALSE)

Targets == Times

fast_forward(start_dt) ==
    /\ CanCall
    /\ IF from_stdin
       THEN LET r == skip_lines(pos, start_dt)
            IN  /\ pos' = r.pos /\ ahead' = 0
                /\ Record("fast_forward", NoRet, "none", r.err, start_dt)
                /\ UNCHANGED <<_start, _end, _filesize, _num_lines, _restarts,
                               _binary>>
       ELSE LET scan == Falsy(_filesize)
                cb == IF scan THEN _calculate_bounds(pos - ahead)
                      ELSE [start |-> _start, end |-> _end,
                            filesize |-> _filesize, pos |-> pos, err |-> "none"]
                r == IF cb.err # "none" THEN [pos |-> cb.pos, err |-> cb.err]
                     ELSE bisection_path(cb.pos, cb.filesize, start_dt)
            IN  /\ _start' = cb.start /\ _end' = cb.end
                /\ _filesize' = cb.filesize
                /\ pos' = r.pos /\ ahead' = 0
                /\ Record("fast_forward", NoRet,
                          IF scan THEN "bounds" ELSE "none", r.err, start_dt)
                /\ UNCHANGED <<_num_lines, _restarts, _binary>>

\* a caller takes up to k records from a new iteration over the LogFile
\* (every record of it when k exceeds the number of lines) and leaves the
\* generator; the generator seeks to 0 before it reads the first line
__iter__(k) ==
    /\ CanCall
    /\ IF from_stdin
       THEN /\ Record("__iter__", NoRet, "none", seek_error, k)
            /\ UNCHANGED <<pos, ahead>>
       ELSE LET t == take(k, reset_logfile(pos), 0, <<>>)
            IN  /\ pos' = t.pos /\ ahead' = t.ahead
                /\ Record("__iter__", RetIt(t.out), "none", "none", k)
    /\ UNCHANGED <<_start, _end, _filesize, _num_lines, _restarts, _binary>>

Takes == 1..(MaxLines + 1)

Next ==
    \/ start
    \/ end
    \/ filesize
    \/ num_lines
    \/ restarts
    \/ binary
    \/ versions
    \/ \E t \in Targets : fast_forward(t)
    \/ \E k \in Takes : __iter__(k)

Spec == Init /\ [][Next]_vars

(***************************************************************************)
(* Narrower specifications: the same operations on fewer inputs.            *)
(***************************************************************************)
\* files of restart banners, read from a file or from the forward-only
\* stream; the operations that read or move what versions is computed from
VersionLines == {Plain, Mongos(1)} \cup {Mongod(v) : v \in 1..MaxVer}

InitVersions ==
    \E in \in Input(SeqsUpTo(VersionLines, MaxLines), BOOLEAN, {TRUE}) :
        Constructed(in)

NextVersions ==
    \/ restarts
    \/ binary
    \/ versions
    \/ fast_forward(YearLen + 1)

SpecVersions == InitVersions /\ [][NextVersions]_vars

\* seekable files of short and long lines with up to two distinct
\* timestamps; every metadata property and fast_forward
ScanLines ==
    [len : LineLens, ts : {None, YearLen + 1, YearLen + 2}, nl : {TRUE},
     kw : {FALSE}, ms : {FALSE}, dbv : {FALSE}, ver : {0}]

InitScans ==
    \E in \in Input(SeqsUpTo(ScanLines, MaxLines), {FALSE}, {TRUE}) :
        Constructed(in)

NextScans ==
    \/ start
    \/ end
    \/ filesize
    \/ num_lines
    \/ restarts
    \/ binary
    \/ versions
    \/ fast_forward(YearLen + 2)

SpecScans == InitScans /\ [][NextScans]_vars

\* the forward-only stream over banners and messages: the full-scan
\* properties and fast_forward
StreamLines == {Plain, Unmarked(1), Mongos(1), Mongod(0), Mongod(1), Late}

InitStream ==
    \E in \in Input(SeqsUpTo(StreamLines, MaxLines), {TRUE}, {TRUE}) :
        Constructed(in)

NextStream ==
    \/ num_lines
    \/ restarts
    \/ binary
    \/ fast_forward(YearLen + 1)
    \/ fast_forward(YearLen + 2)

SpecStream == InitStream /\ [][NextStream]_vars

\* seekable files of short and long lines, with or without the last
\* line-break: iterations taken in part or to the end, between a boundary
\* scan, a full scan and fast_forward.  Their lines have no timestamp or
\* the later one.
IterLines == {l \in ScanLines : l.ts # YearLen + 1}

InitIter ==
    \E in \in Input(SeqsUpTo(IterLines, MaxLines), {FALSE}, BOOLEAN) :
        Constructed(in)

NextIter ==
    \/ start
    \/ num_lines
    \/ fast_forward(YearLen + 2)
    \/ __iter__(1)
    \/ __iter__(MaxLines + 1)

SpecIter == InitIter /\ [][NextIter]_vars

\* seekable files of untimestamped lines, lines with the keyword and
\* neither marker, and later messages; the metadata properties
ThreeLines == <<Plain, Unmarked(1), Late>>

InitScenario ==
    \E in \in Input(SeqsUpTo({ThreeLines[i] : i \in 1..Len(ThreeLines)},
                             MaxLines), {FALSE}, {TRUE}) :
        Constructed(in)

NextScenario ==
    \/ start
    \/ end
    \/ num_lines
    \/ restarts
    \/ versions

SpecScenario == InitScenario /\ [][NextScenario]_vars

\* seekable files of lines long enough for the bisection to run several
\* rounds, and of lines longer than the window; fast_forward from the
\* start, from where an earlier fast_forward stopped and from where an
\* iteration was left
LoopLines ==
    [len : {150, 16000}, ts : {None, YearLen + 1, YearLen + 2}, nl : {TRUE},
     kw : {FALSE}, ms : {FALSE}, dbv : {FALSE}, ver : {0}]

InitLoops ==
    \E in \in Input(SeqsUpTo(LoopLines, MaxLines), {FALSE}, BOOLEAN) :
        Constructed(in)

NextLoops ==
    \/ filesize
    \/ fast_forward(YearLen + 1)
    \/ fast_forward(YearLen + 2)
    \/ __iter__(1)

SpecLoops == InitLoops /\ [][NextLoops]_vars

\* seekable files of banners of both kinds, with and without a version
\* token, lines with the keyword and neither marker, and other lines; the
\* full-scan properties, read first or after fast_forward or a record taken
\* from an iteration
InitBanners ==
    \E in \in Input(SeqsUpTo(StreamLines, MaxLines), {FALSE}, {TRUE}) :
        Constructed(in)

NextBanners ==
    \/ num_lines
    \/ restarts
    \/ binary
    \/ fast_forward(YearLen + 2)
    \/ __iter__(1)

SpecBanners == InitBanners /\ [][NextBanners]_vars

(***************************************************************************)
(* Properties.                                                             *)
(***************************************************************************)
\* the line the caller reads next from the stream
NextRead == readline(pos)

Dated == {i \in 1..Len(file) : file[i].ts # None}

\* timestamped lines in non-decreasing timestamp order
InOrder == \A i, j \in Dated : i < j => file[i].ts <= file[j].ts

\* a fast_forward on the seekable stream that returned
Forwarded == lastOp = "fast_forward" /\ ~from_stdin /\ raised = "none"

\* every line is shorter than the window and ends with a line-break
Ordinary == \A i \in 1..Len(file) : file[i].len < Window /\ file[i].nl

\* the first operation on a LogFile was a fast_forward that returned, over an
\* ordinary file long enough for the bisection loop to run
Bisected == Forwarded /\ nops = 1 /\ _filesize > Threshold /\ Ordinary

\* C1: seekable fast-forward lands on the first match.  After
\* fast_forward(T) on a fresh LogFile over a file ordered by timestamp with
\* some line at or after T, the next line read is a complete line with
\* timestamp >= T, and the line before it has a timestamp < T or none.
\* (Stated for the ordinary files the bisection loop runs on.)
C1_LandsOnFirstMatch ==
    (Bisected /\ InOrder /\ \E i \in Dated : file[i].ts >= arg)
        => /\ NextRead.n > 0 /\ NextRead.whole
           /\ NextRead.dt # None /\ NextRead.dt >= arg
           /\ NextRead.idx > 1 =>
                 \/ file[NextRead.idx - 1].ts = None
                 \/ file[NextRead.idx - 1].ts < arg

\* C2: with T earlier than the start of the file, fast_forward(T) leaves the
\* stream so that the next line read is the complete first line.
\* (Stated for the ordinary files the bisection loop runs on.)
C2_BeforeStartReadsFirstLine ==
    (Bisected /\ Dated # {} /\ _start # None /\ arg < _start)
        => NextRead.whole /\ NextRead.idx = 1

\* C3: with T later than the end of the file, fast_forward(T) leaves the
\* position unchanged or at the end of the stream, and never where a line
\* with timestamp < T is read next.
\* (Stated for the ordinary files the bisection loop runs on.)
C3_AfterEndNoEarlierLine ==
    (Bisected /\ Dated # {} /\ _end # None /\ arg > _end)
        => /\ pos = prePos \/ NextRead.n = 0
           /\ ~(NextRead.dt # None /\ NextRead.dt < arg)

\* the first _find_curr_line of the bisection, started at p with step_size
\* size, returns no record (or the loop does not run at all)
FirstLocateAbsent(p, size) ==
    \/ Abs(size) <= Threshold
    \/ /\ p + ceil_half(size) >= 0
       /\ _find_curr_line(p + ceil_half(size), FALSE).ll = NoLine

\* C4: when the first locate of the bisection returns no record,
\* fast_forward leaves the stream position as it was before the call.
C4_NothingLocatedIsNoOp ==
    (Forwarded /\ FirstLocateAbsent(IF scanned = "bounds" THEN 0 ELSE prePos,
                                    _filesize))
        => pos = prePos

\* C5: after the boundary scan of a seekable file with at least one
\* timestamp, the cached values satisfy start <= end.
C5_StartNotAfterEnd ==
    (~from_stdin /\ nops = 1 /\ scanned = "bounds" /\ Dated # {})
        => _start # None /\ _end # None /\ _start <= _end

\* C6: for every seekable file, the empty one included, num_lines is the
\* number of line-break-delimited records of the file.
C6_LineCountIsRecordCount ==
    (~from_stdin /\ nops = 1 /\ lastOp = "num_lines" /\ raised = "none")
        => ret.v = Len(file)

\* C7: memoization.  Each scan runs at most once in the life of a LogFile,
\* and a property read again returns the value of its first access without
\* running a scan.
C7_ScansRunAtMostOnce ==
    /\ nBounds <= 1
    /\ nFull <= 1
    /\ again => raised = "none" /\ scanned = "none" /\ ret = first[lastOp].r

\* the entries of rs kept when only consecutive duplicates are collapsed:
\* the first, and every one whose version differs from its predecessor's
KeptVersions(rs) ==
    LET keep == {i \in 1..Len(rs) : i = 1 \/ rs[i].v # rs[i - 1].v}
        nth(k) == CHOOSE i \in keep : Cardinality({j \in keep : j <= i}) = k
    IN  [k \in 1..Cardinality(keep) |-> rs[nth(k)].v]

\* C8: versions is no longer than restarts, has no two adjacent equal
\* entries, and is restarts with only consecutive duplicates collapsed.
C8_VersionsCollapseConsecutive ==
    (lastOp = "versions" /\ raised = "none")
        => /\ Len(ret.vs) <= Len(_restarts)
           /\ \A i \in 1..(Len(ret.vs) - 1) : ret.vs[i] # ret.vs[i + 1]
           /\ ret.vs = KeptVersions(_restarts)

\* versions was read where three banners, two of them consecutive and of one
\* version, gave two entries
C8_Witness ==
    /\ lastOp = "versions" /\ raised = "none"
    /\ Len(_restarts) = 3 /\ Len(ret.vs) = 2

\* C9: on a seekable stream, a metadata access that runs a scan and returns
\* leaves the stream position at 0, whatever it was before; an access that
\* runs no scan leaves the position alone.
C9_ScanRestoresPosition ==
    (~from_stdin /\ lastOp \in Props /\ raised = "none")
        => IF scanned = "none" THEN pos = prePos ELSE pos = 0

C9_Witness ==
    /\ ~from_stdin /\ lastOp \in Props /\ raised = "none"
    /\ scanned # "none" /\ prePos > 0 /\ pos = 0

\* C10: on the forward-only stream no metadata property raises, and start,
\* end and filesize yield None without reading from the stream.
C10_ForwardOnlyNeverRaises ==
    (from_stdin /\ lastOp \in Props)
        => /\ raised = "none"
           /\ lastOp \in {"start", "end", "filesize"} =>
                 ret.v = None /\ pos = prePos /\ scanned = "none"

\* the position the loops of the last operation began to read at
ReadFrom == prePos - preAhead

\* the lines read whole by a loop that begins at position s
WholeFrom(s) == {i \in 1..Len(file) : EndOf(i - 1) >= s}

\* a restart banner: the keyword "version" and one of the two kind markers
Banner(i) == file[i].kw /\ (file[i].ms \/ file[i].dbv)
KindOf(i) == IF file[i].ms THEN "mongos" ELSE "mongod"

\* the banners that carry a version token, in file order
TokenBanners(s) ==
    LET keep == {i \in WholeFrom(s) : Banner(i) /\ file[i].ver # 0}
        nth(k) == CHOOSE i \in keep : Cardinality({j \in keep : j <= i}) = k
    IN  [k \in 1..Cardinality(keep) |-> [v |-> file[nth(k)].ver, line |-> nth(k)]]

\* the kind of the last banner (before, when there is none)
LastKind(s, before) ==
    LET bs == {i \in WholeFrom(s) : Banner(i)}
    IN  IF bs = {} THEN before ELSE KindOf(SetMax(bs))

\* C11: on the forward-only stream the first access of num_lines, restarts
\* or binary on a fresh LogFile runs a full scan that consumes the stream and
\* returns: num_lines the number of lines read (not None), restarts the
\* banner lines in order, binary the kind of the last banner.
C11_ForwardOnlyFullScan ==
    (from_stdin /\ file # <<>> /\ nops = 1
        /\ lastOp \in {"num_lines", "restarts", "binary"})
        => /\ raised = "none" /\ scanned = "full" /\ pos = Size
           /\ lastOp = "num_lines" => ret.v = Len(file)
           /\ lastOp = "restarts" => ret.rs = TokenBanners(0)
           /\ lastOp = "binary" => ret.b = LastKind(0, "None")

\* the first line read whole from position s whose timestamp is at or after
\* t (0 when there is none)
FirstAtOrAfter(s, t) ==
    LET m == {i \in WholeFrom(s) : file[i].ts # None /\ file[i].ts >= t}
    IN  IF m = {} THEN 0 ELSE SetMin(m)

\* C12: on the forward-only stream with some remaining line at or after T,
\* fast_forward(T) returns having consumed the lines up to and including the
\* first line with timestamp >= T and no further: the next read returns the
\* line right after that match (or nothing when the match was the last).
C12_ForwardOnlyConsumesMatch ==
    (from_stdin /\ lastOp = "fast_forward" /\ FirstAtOrAfter(prePos, arg) # 0)
        => LET k == FirstAtOrAfter(prePos, arg)
           IN  /\ raised = "none"
               /\ pos = EndOf(k)
               /\ IF k = Len(file) THEN NextRead.n = 0
                  ELSE NextRead.whole /\ NextRead.idx = k + 1

\* an earlier line was skipped, the match was consumed and a line is left
\* to read
C12_Witness ==
    /\ from_stdin /\ lastOp = "fast_forward" /\ raised = "none"
    /\ FirstAtOrAfter(prePos, arg) = 2 /\ Len(file) > 2
    /\ prePos = 0 /\ pos = EndOf(2)
    /\ file[1].ts # None /\ file[1].ts < arg

\* C13: whatever was called before on a seekable LogFile, a new iteration
\* yields one record per line, in file order from the first line: the first
\* k lines when the caller takes k records, every line when it takes them all.
C13_IterationStartsAtZero ==
    (~from_stdin /\ lastOp = "__iter__")
        => /\ raised = "none"
           /\ Len(ret.it) = Min(arg, Len(file))
           /\ \A i \in 1..Len(ret.it) :
                 /\ ret.it[i].idx = i /\ ret.it[i].whole
                 /\ ret.it[i].n = file[i].len

\* a whole iteration after an iteration left in the middle, with lines still
\* in the read-ahead buffer
C13_Witness ==
    /\ ~from_stdin /\ lastOp = "__iter__" /\ raised = "none"
    /\ preAhead > 0 /\ prePos > 0
    /\ Len(file) >= 2 /\ Len(ret.it) = Len(file)

\* the metadata of the three-line file, but for restarts and versions
ThreeLinesBounds ==
    /\ raised = "none"
    /\ lastOp = "start" => ret.v = YearLen + 1
    /\ lastOp = "end" => ret.v = YearLen + 2
    /\ lastOp = "num_lines" => ret.v = Len(ThreeLines)

\* C14 as stated: for the seekable file of an untimestamped line, the line
\* "version 4.2.1 mongod" with the earlier timestamp and a message with the
\* later one, start and end are the two timestamps, num_lines is 3,
\* restarts is the one pair (4.2.1, line 2) and versions is [4.2.1].
C14_ScenarioAsStated ==
    (~from_stdin /\ file = ThreeLines /\ lastOp \in Props)
        => /\ ThreeLinesBounds
           /\ lastOp = "restarts" => ret.rs = <<[v |-> 1, line |-> 2]>>
           /\ lastOp = "versions" => ret.vs = <<1>>

\* C14, amended: for that file start and end are the two timestamps and
\* num_lines is 3, and restarts and versions are empty: line 2 holds the
\* keyword "version" but neither kind marker, so it is no banner.
C14_ScenarioNoBanner ==
    (~from_stdin /\ file = ThreeLines /\ lastOp \in Props)
        => /\ ThreeLinesBounds
           /\ lastOp = "restarts" => ret.rs = <<>>
           /\ lastOp = "versions" => ret.vs = <<>>

\* restarts was read from the three-line file and the full scan ran
C14_Witness ==
    /\ ~from_stdin /\ file = ThreeLines
    /\ lastOp = "restarts" /\ scanned = "full" /\ raised = "none"
    /\ ret.rs = <<>> /\ _num_lines = Len(ThreeLines)

\* the loops of the last fast_forward, run again from where it began: at 0
\* after the boundary scan, else at the position the handle was left at
LastPath ==
    bisection_path(IF scanned = "bounds" THEN 0 ELSE prePos, _filesize, arg)

\* every round of the bisection takes a smaller step and seeks to no
\* negative offset, and only the last locates nothing or takes a step of at
\* most Threshold
BisectionShrinks(rounds) ==
    /\ \A i \in 1..Len(rounds) :
          /\ Abs(rounds[i].step) < Abs(rounds[i].was)
          /\ Abs(rounds[i].was) > Threshold
          /\ rounds[i].to >= 0
          /\ i < Len(rounds) => rounds[i].ll # NoLine
    /\ rounds # <<>> =>
          \/ rounds[Len(rounds)].ll = NoLine
          \/ Abs(rounds[Len(rounds)].step) <= Threshold

\* every round of the backward loop seeks to no negative offset and
\* locates nothing or leaves the handle nearer offset 0
BackwardProgress(back) ==
    \A i \in 1..Len(back) :
        /\ back[i].to >= 0
        /\ back[i].ll = NoLine \/ back[i].pos < back[i].was

LoopsEnd(path) ==
    /\ raised = "none" /\ pos = path.pos
    /\ BisectionShrinks(path.rounds)
    /\ BackwardProgress(path.back)

\* C15: a fast_forward on a seekable stream that reaches its loops returns.
\* Every round of the bisection takes a step strictly smaller in size than
\* the one before and seeks to no negative offset, and the loop ends at a
\* step of at most Threshold or when nothing is located; every round of the
\* backward loop seeks to no negative offset and either locates nothing or
\* leaves the handle strictly nearer offset 0.
C15_LoopsTerminate ==
    (~from_stdin /\ lastOp = "fast_forward" /\ raised # "TypeError")
        => LoopsEnd(LastPath)

SeveralRounds(path) ==
    /\ Len(path.rounds) >= 3 /\ Len(path.back) >= 1
    /\ \E i \in 1..Len(path.rounds) : path.rounds[i].step < 0

\* a fast_forward that ran several rounds of the bisection, forwards and
\* backwards, and a round of the backward loop
C15_Witness ==
    /\ ~from_stdin /\ lastOp = "fast_forward" /\ raised = "none"
    /\ SeveralRounds(LastPath)

\* the bytes _find_curr_line called at offset c looks for line-breaks in
InWindow(c, q) == c - Min(c, Window) <= q /\ q < c

\* the call of round rd, at an offset inside line k, gave line k-1 when
\* the two line-breaks are in the window and line k-1 has a timestamp
PreviousLine(rd, k) ==
    (/\ k >= 3
     /\ InWindow(rd.to, EndOf(k - 1) - 1)
     /\ InWindow(rd.to, EndOf(k - 2) - 1)
     /\ file[k - 1].ts # None)
        => /\ rd.ll.idx = k - 1 /\ rd.ll.whole
           /\ rd.pos = EndOf(k - 1)

PreviousLines(back) ==
    \A i \in 1..Len(back) : PreviousLine(back[i], LineAt(back[i].to))

\* C16: _find_curr_line(prev=True), called by fast_forward at an offset
\* inside line k with the line-breaks before line k and before line k-1
\* both in the window, leaves the handle after line k-1 read from its first
\* byte and, when line k-1 has a timestamp, returns the record of line k-1.
C16_PreviousLineLocated ==
    (~from_stdin /\ lastOp = "fast_forward" /\ raised = "none")
        => PreviousLines(LastPath.back)

\* the first line with a timestamp that begins at or after position s (0
\* when there is none)
FirstDatedFrom(s) ==
    LET m == {i \in Dated : EndOf(i - 1) >= s}
    IN  IF m = {} THEN 0 ELSE SetMin(m)

\* the call of round rd gave line j (nothing, when j is 0): brks are the
\* line-breaks in its window
CurrentLine(rd, brks, j) ==
    IF brks = {} \/ j = 0 THEN rd.ll = NoLine
    ELSE /\ rd.ll.idx = j /\ rd.ll.whole
         /\ rd.ll.dt = file[j].ts
         /\ rd.pos = EndOf(j)

\* the first timestamped line at or after the line that begins after the
\* last of the line-breaks brks
FirstDatedAfter(brks) ==
    IF brks = {} THEN 0 ELSE FirstDatedFrom(SetMax(brks) + 1)

WindowBreaks(c) == {q \in Breaks : InWindow(c, q)}

CurrentLines(rounds) ==
    \A i \in 1..Len(rounds) :
        CurrentLine(rounds[i], WindowBreaks(rounds[i].to),
                    FirstDatedAfter(WindowBreaks(rounds[i].to)))

\* C17: _find_curr_line in its current-line mode, at every offset the
\* bisection of fast_forward calls it at.  With a line-break in the window
\* before the offset it returns the first timestamped line at or after the
\* enclosing line (the line that begins after the last such line-break) and
\* leaves the handle right after the line returned; it returns None exactly
\* when the window holds no line-break or no line from the enclosing line
\* to the end has a timestamp.
C17_CurrentLineLocated ==
    (~from_stdin /\ lastOp = "fast_forward" /\ raised = "none")
        => CurrentLines(LastPath.rounds)

RolledOn(rounds) ==
    /\ \E i \in 1..Len(rounds) :
          /\ rounds[i].to < Size /\ LineAt(rounds[i].to) = 2
          /\ file[2].ts = None /\ rounds[i].ll.idx = 3
    /\ \E i \in 1..Len(rounds) : rounds[i].ll = NoLine

\* the bisection called it inside a line without a timestamp and it
\* returned the next line; another call found nothing
C17_Witness ==
    /\ ~from_stdin /\ lastOp = "fast_forward" /\ raised = "none"
    /\ RolledOn(LastPath.rounds)

\* the positions at which a line begins, and the end of the file
LineStarts == {EndOf(i) : i \in 0..Len(file)}

\* C18: a full scan of a seekable file that begins at the start of a line
\* leaves in restarts, in file order, exactly the lines read that hold the
\* keyword "version", one of the two kind markers and a version token, and
\* in binary the kind of the last line with the keyword and a marker: a line
\* with the keyword and neither marker adds nothing and leaves binary as it
\* was, and a banner without a token adds nothing to restarts while the
\* lines after it are still counted and classified.
C18_ScanClassifies ==
    (~from_stdin /\ scanned = "full" /\ raised = "none"
        /\ ReadFrom \in LineStarts)
        => /\ _restarts = TokenBanners(ReadFrom)
           /\ _binary = LastKind(ReadFrom, "None")
           /\ WholeFrom(ReadFrom) # {}
                 => _num_lines = Cardinality(WholeFrom(ReadFrom))
           /\ lastOp = "restarts" => ret.rs = _restarts
           /\ lastOp = "binary" => ret.b = _binary
           /\ lastOp = "num_lines" => ret.v = _num_lines

\* restarts was read from a file of a banner without a token, a line with
\* the keyword and neither marker and, last, a mongos banner with a token
C18_Witness ==
    /\ ~from_stdin /\ lastOp = "restarts" /\ scanned = "full"
    /\ raised = "none" /\ ReadFrom = 0
    /\ file = <<Mongod(0), Unmarked(1), Mongos(1)>>
    /\ ret.rs = <<[v |-> 1, line |-> 3]>> /\ _binary = "mongos"
    /\ _num_lines = 3

\* what the two scans give on a LogFile just constructed: nothing cached,
\* the handle at 0
FreshBounds ==
    LET s == first_date(0)
        e == last_date(readlines(Size - Min(Size, Window)))
    IN  [start |-> IF rollover(e, s) THEN year_before(s) ELSE s,
         end |-> e, filesize |-> Size]

FreshScan ==
    LET lines == readlines(0)
        acc == scan_lines(lines, [restarts |-> <<>>, binary |-> "None"])
    IN  [num_lines |-> count_lines(lines), restarts |-> acc.restarts,
         binary |-> acc.binary]

\* C19: on a seekable file the value a metadata property returns on its
\* first access is the value it returns on a fresh LogFile of the same file,
\* whatever operations were called before.  (Stated for files whose lines
\* are shorter than the window and end with a line-break.)
C19_MetadataOrderFree ==
    (~from_stdin /\ Ordinary /\ lastOp \in Props /\ ~again /\ raised = "none")
        => /\ lastOp \in {"start", "end", "filesize"}
                 => ret.v = FreshBounds[lastOp]
           /\ lastOp = "num_lines" => ret.v = FreshScan.num_lines
           /\ lastOp = "restarts" => ret.rs = FreshScan.restarts
           /\ lastOp = "binary" => ret.b = FreshScan.binary

\* C20: on a seekable file fast_forward(T) ends at the position it ends at
\* when it is started with the handle at 0, wherever the handle was before
\* the call; so a second fast_forward(T) ends where the first did.  (Stated
\* for files whose lines are shorter than the window and end with a
\* line-break.)
C20_ForwardPositionFree ==
    (Forwarded /\ Ordinary)
        => pos = bisection_path(0, _filesize, arg).pos

====
